---- MODULE Spec2Model ----
(***************************************************************************)
(* Model of the training / evaluation lifecycle of ml_dl_pkg:              *)
(*   - BaseModel            (src/ml/models/base_model.py)                  *)
(*   - BaseModelManager     (src/ml/models/model_manager.py), the          *)
(*     per-batch (gradient) orchestrator                                   *)
(*   - MLTrainManager       (src/ml/models/train_managers/                 *)
(*     ml_train_manager.py), the batch-fit orchestrator                    *)
(* Metric / AverageMeter (ml.utils) and the concrete NNModel / MLModel     *)
(* subclasses are not part of the sources at hand; the few operators that  *)
(* stand for them are marked as such below.                                *)
(*                                                                         *)
(* Metric values are integers in tenths (5 stands for 0.5); an average is  *)
(* the pair <<sum, count>> and averages are compared by cross              *)
(* multiplication, so no rounding is introduced by the model.              *)
(***************************************************************************)
EXTENDS Integers, Sequences, FiniteSets, TLC

VARIABLES
    kind,        \* "nn": BaseModelManager drives, "ml": MLTrainManager drives
    epochs,      \* cfg['epochs']
    saveFlag,    \* metric.save_model for every metric
    earlyStop,   \* cfg['early_stopping'] (batch-fit orchestrator)
    pc,          \* position of the controlling thread
    epoch,       \* loop variable of `for epoch in range(epochs)`
    phaseIdx,    \* index into PhaseOrder of `for phase in ['train', 'val']`
    batchIdx,    \* number of batches consumed in the current phase
    meter,       \* meter[m][p]: the AverageMeter of metric m for phase p
    phaseVals,   \* history: per metric, <<sum, number>> of the values of the batches
                 \* consumed so far in the current phase of the current epoch
    valLoss,     \* history: the val average of "loss" at each end of val phase
    log,         \* history: the calls made on the backend, in order
    last,        \* the calls the last step made on the backend and the metrics
    calls,       \* number of train() calls made on the batch-fit orchestrator
    backend,     \* "none" | "constructed" | "failed"
    err,         \* the failure construction or a call ended with
    fitted,      \* BaseModel.fitted
    ckpt,        \* the checkpoint file: "absent" | "fitted" | "unfitted"
    cfg,         \* the configuration handed to the backend constructor
    taskType,    \* cfg['task_type'] of the prediction workflows
    data,        \* the batches the phase's data source delivers to _predict
    loadBest,    \* the load_best argument of the last test()/infer() call
    predictCalls,\* number of backend.predict calls made
    result       \* what test()/infer() returned

trainVars == <<kind, epochs, saveFlag, earlyStop, pc, epoch, phaseIdx, batchIdx,
               meter, phaseVals, valLoss, log, last, calls>>
backendVars == <<backend, err, fitted, ckpt, cfg>>
predVars == <<taskType, data, loadBest, predictCalls, result>>
vars == <<trainVars, backendVars, predVars>>

----------------------------------------------------------------------------
(* Bounds *)

MaxEpochs == 2
NumBatches == 2
MaxTrainCalls == 2
MaxBatches == 2
BatchSize == 2
MaxClasses == 2
MaxRows == 6
MaxFits == 12

----------------------------------------------------------------------------
(* Metrics *)

\* self.metrics is a list: the order of iteration is fixed.
MetricOrder == <<"loss", "acc">>
Metrics == {MetricOrder[i] : i \in 1..Len(MetricOrder)}

\* direction of each metric: "loss" is lower-is-better, "acc" higher-is-better
Direction(m) == IF m = "loss" THEN "lower" ELSE "higher"

\* per-batch values a fit can produce, in tenths
LossVals == {5, 6}
AccVals == {0, 1}

NoBest == <<>>

NewMeter == [sum |-> 0, count |-> 0, best |-> NoBest]

\* a < b for averages a = <<sum, count>>, b = <<sum, count>>, counts > 0
RatLess(a, b) == a[1] * b[2] < b[1] * a[2]
RatEq(a, b) == a[1] * b[2] = b[1] * a[2]

\* AverageMeter.average
Average(mt) == <<mt.sum, mt.count>>

\* AverageMeter.update: fold one value into the running sum/count
MeterUpdate(mt, v) == [mt EXCEPT !.sum = @ + v, !.count = @ + 1]

\* the comparison update_best() makes, per direction
Improves(dir, avg, best) ==
    \/ best = NoBest
    \/ /\ best # NoBest
       /\ IF dir = "lower" THEN RatLess(avg, best) ELSE RatLess(best, avg)

\* AverageMeter.update_best: the flag returned and the meter afterwards
UpdateBestFlag(mt, dir) == Improves(dir, Average(mt), mt.best)
UpdateBestMeter(mt, dir) ==
    IF UpdateBestFlag(mt, dir) THEN [mt EXCEPT !.best = Average(mt)] ELSE mt

\* AverageMeter.reset: zeroes sum/count, keeps best
MeterReset(mt) == [mt EXCEPT !.sum = 0, !.count = 0]

----------------------------------------------------------------------------
(* Failures *)

Error(type, key) == [type |-> type, key |-> key]
NoErr == Error("none", "-")

----------------------------------------------------------------------------
(* History events *)

Event(op, e, p, m, f) == [op |-> op, epoch |-> e, phase |-> p, metric |-> m, flag |-> f]

----------------------------------------------------------------------------
(* BaseModel: save_model *)

\* BaseModel.save_model: writes the wrapped model to cfg['model_path'];
\* self.fitted is not consulted.
SaveModelCkpt(isFitted) == IF isFitted THEN "fitted" ELSE "unfitted"

----------------------------------------------------------------------------
(* BaseModelManager.train: the per-batch orchestrator *)

\* mutant: the phases are visited in the other order
PhaseOrderValFirst == <<"val", "train">>

\* line 184: for phase in ['train', 'val']
PhaseOrder == <<"train", "val">>
Phases == {"train", "val"}

Phase == PhaseOrder[phaseIdx]

\* the value a metric takes from one batch: metric.update(phase, loss, predicts, labels)
BatchValue(m, l, a) == IF m = "loss" THEN l ELSE a

\* the calls among evs that the history keeps: those made on the backend, and
\* the call of _update_by_epoch itself (line 200)
BackendCalls(evs) ==
    SelectSeq(evs, LAMBDA e : e.op \in {"fit", "predict", "save_model", "anneal_lr",
                                        "_update_by_epoch"})

\* mutant: the backend is fitted again before the update of every metric
BatchEventsFitPerMetric(p) ==
    [j \in 1..(2 * Len(MetricOrder)) |->
        IF j % 2 = 1 THEN Event("fit", epoch, p, "-", FALSE)
        ELSE Event("update", epoch, p, MetricOrder[j \div 2], FALSE)]

\* lines 188-192: the calls made for one batch: one fit, then one update on
\* every metric in the order of self.metrics
BatchEvents(p) ==
    <<Event("fit", epoch, p, "-", FALSE)>>
    \o [i \in 1..Len(MetricOrder) |-> Event("update", epoch, p, MetricOrder[i], FALSE)]

\* lines 186-195: one batch is taken, fitted, and folded into every metric
FitBatch(l, a) ==
    /\ kind = "nn"
    /\ pc = "run"
    /\ batchIdx < NumBatches
    /\ fitted' = TRUE
    /\ meter' = [m \in Metrics |->
                   [meter[m] EXCEPT ![Phase] = MeterUpdate(@, BatchValue(m, l, a))]]
    /\ phaseVals' = [m \in Metrics |->
                       <<phaseVals[m][1] + BatchValue(m, l, a), phaseVals[m][2] + 1>>]
    /\ log' = log \o BackendCalls(BatchEvents(Phase))
    /\ last' = BatchEvents(Phase)
    /\ batchIdx' = batchIdx + 1
    /\ UNCHANGED <<kind, epochs, saveFlag, earlyStop, pc, epoch, phaseIdx, valLoss, calls>>
    /\ UNCHANGED <<backend, err, ckpt, cfg>>
    /\ UNCHANGED predVars

\* mutant: the failure of a fit is swallowed and the loop goes on
FitBatchFailsSwallowed ==
    /\ kind = "nn"
    /\ pc = "run"
    /\ batchIdx < NumBatches
    /\ err' = Error("Exception", "fit")
    /\ log' = Append(log, Event("fit", epoch, Phase, "-", FALSE))
    /\ last' = <<Event("fit", epoch, Phase, "-", FALSE)>>
    /\ batchIdx' = batchIdx + 1
    /\ UNCHANGED <<kind, epochs, saveFlag, earlyStop, pc, epoch, phaseIdx,
                   meter, phaseVals, valLoss, calls>>
    /\ UNCHANGED <<backend, fitted, ckpt, cfg>>
    /\ UNCHANGED predVars

\* line 188 raising: nothing in train() catches the failure of a fit, so it
\* leaves the loops and train() at once
FitBatchFails ==
    /\ kind = "nn"
    /\ pc = "run"
    /\ batchIdx < NumBatches
    /\ pc' = "aborted"
    /\ err' = Error("Exception", "fit")
    /\ log' = Append(log, Event("fit", epoch, Phase, "-", FALSE))
    /\ last' = <<Event("fit", epoch, Phase, "-", FALSE)>>
    /\ UNCHANGED <<kind, epochs, saveFlag, earlyStop, epoch, phaseIdx, batchIdx,
                   meter, phaseVals, valLoss, calls>>
    /\ UNCHANGED <<backend, fitted, ckpt, cfg>>
    /\ UNCHANGED predVars

\* mutant: the flag update_best() returned is not consulted
SaveConditionEveryVal(m, flag, p) == saveFlag[m] /\ p = "val"

\* line 148: the checkpoint condition of one metric
SaveCondition(m, flag, p) == saveFlag[m] /\ flag /\ p = "val"

\* lines 146-153 for one metric: the events it logs
MetricEvents(m, p) ==
    LET flag == UpdateBestFlag(meter[m][p], Direction(m)) IN
    <<Event("update_best", epoch, p, m, flag)>>
    \o (IF SaveCondition(m, flag, p)
        THEN <<Event("save_model", epoch, p, m, TRUE)>> ELSE <<>>)
    \o <<Event("reset", epoch, p, m, FALSE)>>

\* mutant: the reset sits inside the branch taken on improvement
MetricMeterResetOnImprove(m, p) ==
    IF UpdateBestFlag(meter[m][p], Direction(m))
    THEN MeterReset(UpdateBestMeter(meter[m][p], Direction(m)))
    ELSE meter[m][p]

\* lines 146-153 for one metric: its meter for phase p afterwards
MetricMeter(m, p) == MeterReset(UpdateBestMeter(meter[m][p], Direction(m)))

RECURSIVE EpochEvents(_, _)
EpochEvents(i, p) ==
    IF i > Len(MetricOrder) THEN <<>>
    ELSE MetricEvents(MetricOrder[i], p) \o EpochEvents(i + 1, p)

\* lines 155-157: anneal_lr at the end of a train phase
AnnealEvents(p) ==
    IF p = "train" THEN <<Event("anneal_lr", epoch, p, "-", FALSE)>> ELSE <<>>

\* BaseModelManager._update_by_epoch together with the loop bookkeeping of
\* train(): end of the batches of a phase
UpdateByEpoch ==
    /\ kind = "nn"
    /\ pc = "run"
    /\ batchIdx = NumBatches
    /\ LET p == Phase
           evs == <<Event("_update_by_epoch", epoch, p, "-", FALSE)>>
                  \o EpochEvents(1, p) \o AnnealEvents(p)
           saved == \E i \in 1..Len(evs) : evs[i].op = "save_model"
       IN /\ meter' = [m \in Metrics |-> [meter[m] EXCEPT ![p] = MetricMeter(m, p)]]
          /\ log' = log \o BackendCalls(evs)
          /\ last' = evs
          /\ ckpt' = IF saved THEN SaveModelCkpt(fitted) ELSE ckpt
          /\ valLoss' = IF p = "val" THEN Append(valLoss, Average(meter["loss"][p]))
                        ELSE valLoss
    /\ phaseVals' = [m \in Metrics |-> <<0, 0>>]
    /\ batchIdx' = 0
    /\ IF phaseIdx < Len(PhaseOrder)
       THEN /\ phaseIdx' = phaseIdx + 1
            /\ UNCHANGED <<epoch, pc>>
       ELSE /\ phaseIdx' = 1
            /\ epoch' = epoch + 1
            /\ pc' = IF epoch + 1 < epochs THEN "run" ELSE "done"
    /\ UNCHANGED <<kind, epochs, saveFlag, earlyStop, calls>>
    /\ UNCHANGED <<backend, err, fitted, cfg>>
    /\ UNCHANGED predVars

----------------------------------------------------------------------------
(* MLTrainManager.train: the batch-fit orchestrator *)

\* lines 42-47: the phases of one train() call
MLPhases(withValidate, onlyValidate) ==
    IF onlyValidate THEN <<"val">>
    ELSE IF withValidate THEN <<"train", "val">> ELSE <<"train">>

InSeq(x, s) == \E i \in 1..Len(s) : s[i] = x

\* lines 51-54: for every requested phase the loader is read through twice,
\* once for the inputs (line 53) and once more for the labels (line 54); every
\* batch delivered is one event, marked with the pass it was delivered in
MLMaterializeEvents(phases) ==
    [j \in 1..(Len(phases) * 2 * NumBatches) |->
        Event("materialize", 0, phases[((j - 1) \div (2 * NumBatches)) + 1],
              IF (j - 1) % (2 * NumBatches) < NumBatches THEN "inputs" ELSE "labels",
              FALSE)]

\* mutant: the held-out pair is handed to fit whenever val is among the phases
MLFitEventsAlwaysHeldOut(phases) ==
    IF InSeq("train", phases)
    THEN <<Event("fit", 0, "train", "-", InSeq("val", phases))>>
         \o [i \in 1..Len(phases) |-> Event("predict", 0, phases[i], "-", FALSE)]
    ELSE <<>>

\* lines 56-64: one fit on the train split, then one predict per phase; the
\* flag of the fit tells whether the held-out pair was handed to it
MLFitEvents(phases) ==
    IF InSeq("train", phases)
    THEN <<Event("fit", 0, "train", "-", earlyStop /\ InSeq("val", phases))>>
         \o [i \in 1..Len(phases) |-> Event("predict", 0, phases[i], "-", FALSE)]
    ELSE <<>>

\* lines 66-70: every metric of every phase is updated and its best overwritten
RECURSIVE MLUpdateEvents(_, _)
MLUpdateEvents(phases, i) ==
    IF i > Len(phases) THEN <<>>
    ELSE [j \in 1..(2 * Len(MetricOrder)) |->
            Event(IF j % 2 = 1 THEN "update" ELSE "set_best", 0, phases[i],
                  MetricOrder[(j + 1) \div 2], FALSE)]
         \o MLUpdateEvents(phases, i + 1)

\* lines 69-70 for one meter: update, then best_score is overwritten by the average
MLMeter(mt, v) ==
    LET u == MeterUpdate(mt, v) IN [u EXCEPT !.best = Average(u)]

\* MLTrainManager.train, one call
MLTrain(withValidate, onlyValidate, l, aTrain, aVal) ==
    /\ kind = "ml"
    /\ pc \in {"idle", "returned", "raised"}
    /\ calls < MaxTrainCalls
    /\ calls' = calls + 1
    /\ LET phases == MLPhases(withValidate, onlyValidate)
           a == [p \in Phases |-> IF p = "train" THEN aTrain ELSE aVal]
       IN IF InSeq("train", phases)
          THEN /\ fitted' = TRUE
               /\ meter' = [m \in Metrics |-> [p \in Phases |->
                              IF InSeq(p, phases)
                              THEN MLMeter(meter[m][p], BatchValue(m, l, a[p]))
                              ELSE meter[m][p]]]
               /\ last' = MLMaterializeEvents(phases)
                           \o MLFitEvents(phases)
                           \o MLUpdateEvents(phases, 1)
                           \o <<Event("save_model", 0, "-", "-", TRUE)>>
               /\ log' = log \o BackendCalls(last')
               /\ ckpt' = SaveModelCkpt(TRUE)
               /\ pc' = "returned"
               /\ err' = NoErr
          ELSE \* line 69: loss and predicts were never bound
               /\ pc' = "raised"
               /\ err' = Error("UnboundLocalError", "loss")
               /\ last' = MLMaterializeEvents(phases)
               /\ UNCHANGED <<fitted, meter, log, ckpt>>
    /\ UNCHANGED <<kind, epochs, saveFlag, earlyStop, epoch, phaseIdx, batchIdx,
                   phaseVals, valLoss>>
    /\ UNCHANGED <<backend, cfg>>
    /\ UNCHANGED predVars

----------------------------------------------------------------------------
(* The training specification: either orchestrator, from construction *)

\* the configuration of a constructed orchestrator: BaseModelManager.__init__
\* reads cfg['model_path'] (line 89), so the key is always there
ManagerCfg == [keys |-> {"task_type", "loss_weight", "model_path"}, must |-> <<>>,
               task |-> "regress", labels |-> 1, weights |-> 1, model |-> "rnn"]

NoResult == [status |-> "none", preds |-> <<>>, labels |-> <<>>, loss |-> <<>>]

PredIdle ==
    /\ taskType = "regress"
    /\ data = <<>>
    /\ loadBest = FALSE
    /\ predictCalls = 0
    /\ result = NoResult

BackendReady ==
    /\ backend = "constructed"
    /\ err = NoErr
    /\ fitted = FALSE
    /\ ckpt = "absent"
    /\ cfg = ManagerCfg

\* the state after construction, for either orchestrator; a per-batch run makes
\* at most MaxFits fits in all (epochs * phases * batches)
Init ==
    /\ kind \in {"nn", "ml"}
    /\ epochs \in (IF kind = "nn"
                  THEN {e \in 1..MaxEpochs : e * Len(PhaseOrder) * NumBatches <= MaxFits}
                  ELSE {1})
    /\ saveFlag \in [Metrics -> BOOLEAN]
    /\ earlyStop \in (IF kind = "ml" THEN BOOLEAN ELSE {FALSE})
    /\ pc = IF kind = "nn" THEN "run" ELSE "idle"
    /\ epoch = 0
    /\ phaseIdx = 1
    /\ batchIdx = 0
    /\ meter = [m \in Metrics |-> [p \in Phases |-> NewMeter]]
    /\ phaseVals = [m \in Metrics |-> <<0, 0>>]
    /\ valLoss = <<>>
    /\ log = <<>>
    /\ last = <<>>
    /\ calls = 0
    /\ BackendReady
    /\ PredIdle

Next ==
    \/ \E l \in LossVals, a \in AccVals : FitBatch(l, a)
    \/ FitBatchFails
    \/ UpdateByEpoch
    \/ \E w \in BOOLEAN, o \in BOOLEAN, l \in LossVals, at \in AccVals, av \in AccVals :
          MLTrain(w, o, l, at, av)

Spec == Init /\ [][Next]_vars

----------------------------------------------------------------------------
(* Claims about training *)

Count(evs, op) == Len(SelectSeq(evs, LAMBDA e : e.op = op))

\* the checkpoint policy read off the calls of one step: every save_model call
\* directly follows an update_best() that returned true for phase val on a
\* save-triggering metric, and every such update_best() is followed by one
SavePolicy(evs) ==
    /\ \A i \in 1..Len(evs) : evs[i].op = "save_model" =>
          /\ i > 1
          /\ evs[i - 1].op = "update_best"
          /\ evs[i - 1].flag
          /\ evs[i - 1].phase = "val"
          /\ saveFlag[evs[i - 1].metric]
    /\ \A i \in 1..Len(evs) :
          (/\ evs[i].op = "update_best"
           /\ evs[i].flag
           /\ evs[i].phase = "val"
           /\ saveFlag[evs[i].metric])
          => (i < Len(evs) /\ evs[i + 1].op = "save_model")

\* C1, as stated: in both orchestrators save_model() is called if and only if
\* the phase just finished is val and a save-triggering metric's update_best()
\* returned true for it; never after a train phase, never for another metric.
C1_SavePolicyBothOrchestrators == SavePolicy(last)

SaveEvent(e, m) == Event("save_model", e, "val", m, TRUE)

InLog(ev) == \E i \in 1..Len(log) : log[i] = ev

\* the scenario of C2: a finished two-epoch run whose only save-triggering
\* metric is "loss", with val averages 0.5 then 0.6
C2_Setting ==
    /\ kind = "nn"
    /\ epochs = 2
    /\ pc = "done"
    /\ saveFlag = [m \in Metrics |-> m = "loss"]
    /\ Len(valLoss) = 2
    /\ RatEq(valLoss[1], <<5, 1>>)
    /\ RatEq(valLoss[2], <<6, 1>>)

\* C2: with epochs = 2 and val averages of "loss" of 0.5 then 0.6, the
\* checkpoint is saved at the end of epoch 0's val phase and not at the end of
\* epoch 1's val phase.
C2_SavedAfterEpoch0Only ==
    C2_Setting =>
        /\ InLog(SaveEvent(0, "loss"))
        /\ \A i \in 1..Len(log) : log[i].op = "save_model" => log[i].epoch = 0

\* C2 witness: the scenario has run to its end.
C2_Witness == C2_Setting /\ ckpt = "fitted"

\* what one step did to the best of every meter, against the update_best()
\* calls the step made: the flag is true exactly on a strict improvement in the
\* metric's direction, and the best moves to the average exactly then
BestFollowsUpdateBest ==
    \A m \in Metrics, p \in Phases :
        LET mt == meter[m][p]
            called == \E i \in 1..Len(last') :
                         /\ last'[i].op = "update_best"
                         /\ last'[i].metric = m
                         /\ last'[i].phase = p
            flag == \E i \in 1..Len(last') :
                         /\ last'[i].op = "update_best"
                         /\ last'[i].metric = m
                         /\ last'[i].phase = p
                         /\ last'[i].flag
            better == \/ mt.best = NoBest
                      \/ /\ mt.best # NoBest
                         /\ Direction(m) = "lower"
                         /\ mt.sum * mt.best[2] < mt.best[1] * mt.count
                      \/ /\ mt.best # NoBest
                         /\ Direction(m) = "higher"
                         /\ mt.sum * mt.best[2] > mt.best[1] * mt.count
        IN /\ called => (flag <=> better)
           /\ flag => meter'[m][p].best = <<mt.sum, mt.count>>
           /\ ~flag => meter'[m][p].best = mt.best

\* C3, as stated: for every metric and phase update_best() returns true exactly
\* on a strict improvement of the average in the metric's direction, and the
\* stored best changes only when it returns true.
C3_BestChangesOnlyOnImprovement == [][BestFollowsUpdateBest]_vars

\* the phases whose end-of-phase processing has run at least once
PhaseEnded(p) ==
    \/ epoch > 0
    \/ \E i \in 1..(phaseIdx - 1) : PhaseOrder[i] = p

\* C4: at the end of every phase the running sum/count of every metric for that
\* phase is reset, improved or not, so a phase's average is made only of the
\* batches of the current epoch; the reset never clears the best.
C4_ResetEveryPhaseKeepsBest ==
    kind = "nn" =>
        /\ \A m \in Metrics, p \in Phases :
              IF pc \in {"run", "aborted"} /\ p = Phase
              THEN /\ meter[m][p].sum = phaseVals[m][1]
                   /\ meter[m][p].count = phaseVals[m][2]
                   /\ meter[m][p].count = batchIdx
              ELSE meter[m][p].sum = 0 /\ meter[m][p].count = 0
        /\ \A m \in Metrics, p \in Phases :
              PhaseEnded(p) <=> meter[m][p].best # NoBest
        /\ \A i \in 1..Len(last) : last[i].op = "update_best" =>
              /\ i < Len(last)
              /\ \E j \in (i + 1)..Len(last) :
                    last[j] = Event("reset", last[i].epoch, last[i].phase,
                                    last[i].metric, FALSE)
        /\ IF valLoss = <<>> THEN meter["loss"]["val"].best = NoBest
           ELSE /\ \E i \in 1..Len(valLoss) : meter["loss"]["val"].best = valLoss[i]
                /\ \A i \in 1..Len(valLoss) :
                      ~RatLess(valLoss[i], meter["loss"]["val"].best)

\* C4 witness: epoch 1 is under way after an epoch whose val phase did not
\* improve "acc"; the val meters were reset all the same and kept their best.
C4_Witness ==
    /\ kind = "nn"
    /\ epoch = 1
    /\ Phase = "val"
    /\ batchIdx = 1
    /\ meter["acc"]["val"].best # NoBest
    /\ RatLess(Average(meter["acc"]["val"]), meter["acc"]["val"].best)

\* the i-th call of the schedule of train(): per epoch the train block then the
\* val block, each block NumBatches fits then its end-of-phase update
Schedule(i) ==
    LET block == (i - 1) \div (NumBatches + 1)
        pos == (i - 1) % (NumBatches + 1)
    IN Event(IF pos < NumBatches THEN "fit" ELSE "_update_by_epoch",
             block \div 2,
             IF block % 2 = 0 THEN "train" ELSE "val",
             "-", FALSE)

LoopCalls == SelectSeq(log, LAMBDA e : e.op \in {"fit", "_update_by_epoch"})

\* C10: train() visits train then val within each epoch, epochs in increasing
\* order from 0 to epochs - 1; all batches of a phase come before its
\* end-of-phase update and before any batch of the next phase; test and infer
\* are never entered from the epoch loop.
C10_PhaseOrder ==
    kind = "nn" =>
        LET loop == LoopCalls IN
        /\ \A i \in 1..Len(loop) : loop[i] = Schedule(i)
        /\ Len(loop) <= epochs * 2 * (NumBatches + 1)
        /\ pc = "done" <=> Len(loop) = epochs * 2 * (NumBatches + 1)
        /\ \A i \in 1..Len(log) : log[i].phase \in {"train", "val"}
        /\ \A i \in 1..Len(last) : last[i].phase \in {"train", "val"}

\* C10 witness: a run of two epochs is in the val phase of its second epoch.
C10_Witness ==
    /\ kind = "nn"
    /\ epoch = 1
    /\ Phase = "val"
    /\ batchIdx = NumBatches
    /\ Len(LoopCalls) = 3 * (NumBatches + 1) + NumBatches

----------------------------------------------------------------------------
(* Prediction aggregation: BaseModelManager._predict, MLTrainManager.predict *)

\* line 169: the value the prediction and label buffers are pre-filled with
Sentinel == -1000000

Sample(pr, lb) == [pred |-> pr, label |-> lb]

\* the rows a data source can deliver: the prediction the backend makes for the
\* row, and the row's label.  Class indices for classify, any number for regress
Samples(t) ==
    IF t = "classify"
    THEN {Sample(0, 0), Sample(1, 0)}
    ELSE {Sample(-1, 0), Sample(Sentinel, 0), Sample(0, Sentinel)}

\* the batch sizes of a data source of at most MaxRows rows: full batches, the
\* last one possibly short
Shapes ==
    {<<>>} \cup
    UNION {{[i \in 1..n |-> IF i < n THEN BatchSize ELSE k] :
               k \in {kk \in 1..BatchSize : (n - 1) * BatchSize + kk <= MaxRows}}
           : n \in 1..MaxBatches}

RECURSIVE BatchesOf(_, _, _)
BatchesOf(t, sizes, i) ==
    IF i > Len(sizes) THEN {<<>>}
    ELSE {<<b>> \o rest : b \in [1..sizes[i] -> Samples(t)],
                          rest \in BatchesOf(t, sizes, i + 1)}

\* every data source of task type t within the bounds
DataSets(t) == UNION {BatchesOf(t, sizes, 1) : sizes \in Shapes}

\* the data sources whose rows are all the same and whose last batch is short
UniformDataSets(t) ==
    {[i \in 1..Len(sizes) |-> [j \in 1..sizes[i] |-> Sample(0, 0)]] :
        sizes \in {sh \in Shapes : sh = <<>> \/ sh[Len(sh)] = 1}}

RECURSIVE Flatten(_)
Flatten(batches) ==
    IF batches = <<>> THEN <<>> ELSE Head(batches) \o Flatten(Tail(batches))

Preds(rows) == [i \in 1..Len(rows) |-> rows[i].pred]
Labels(rows) == [i \in 1..Len(rows) |-> rows[i].label]

\* lines 169-170: np.zeros((len(loader) * batch_size, 1)) - 1000000
NewBuffer(n) == [i \in 1..(n * BatchSize) |-> Sentinel]

\* lines 175-176: buf[i * batch_size : i * batch_size + len(vals)] = vals,
\* for the i-th batch counted from 0
WriteBatch(buf, i, vals) ==
    [j \in 1..Len(buf) |->
        IF j > i * BatchSize /\ j <= i * BatchSize + Len(vals)
        THEN vals[j - i * BatchSize] ELSE buf[j]]

RECURSIVE FillBuffer(_, _, _)
FillBuffer(buf, cols, i) ==
    IF i > Len(cols) THEN buf
    ELSE FillBuffer(WriteBatch(buf, i - 1, cols[i]), cols, i + 1)

\* line 178: buf[~(buf == -1000000)]
Strip(buf) == SelectSeq(buf, LAMBDA v : v # Sentinel)

\* mutant: the predictions are stripped where the label buffer is unfilled
PredictArraysLabelMask(batches) ==
    LET n == Len(batches)
        preds == [i \in 1..n |-> Preds(batches[i])]
        labels == [i \in 1..n |-> Labels(batches[i])]
        pbuf == FillBuffer(NewBuffer(n), preds, 1)
        lbuf == FillBuffer(NewBuffer(n), labels, 1)
        keep == {i \in 1..Len(lbuf) : lbuf[i] # Sentinel}
        Pick[i \in 0..Len(pbuf)] ==
            IF i = 0 THEN <<>>
            ELSE IF i \in keep THEN Append(Pick[i - 1], pbuf[i]) ELSE Pick[i - 1]
    IN [preds |-> Pick[Len(pbuf)], labels |-> Strip(lbuf)]

\* BaseModelManager._predict: the prediction and the label array returned
PredictArrays(batches) ==
    LET n == Len(batches)
        preds == [i \in 1..n |-> Preds(batches[i])]
        labels == [i \in 1..n |-> Labels(batches[i])]
    IN [preds |-> Strip(FillBuffer(NewBuffer(n), preds, 1)),
        labels |-> Strip(FillBuffer(NewBuffer(n), labels, 1))]

\* MLTrainManager.predict with cfg['tta'] off: the loader is read through once
\* for the inputs (line 28) and once more for the labels (line 29), the rows
\* are stacked and predicted at once; the data source delivers its batches in
\* the same order on both passes.  Stacking no batch at all is a ValueError
\* of numpy
MLPredictArrays(batches) ==
    [preds |-> Preds(Flatten(batches)), labels |-> Labels(Flatten(batches))]

\* BaseModelManager._predict on a fitted backend
PredictNN ==
    /\ kind = "nn"
    /\ pc = "idle"
    /\ pc' = "returned"
    /\ predictCalls' = Len(data)
    /\ result' = [NoResult EXCEPT !.status = "returned",
                                  !.preds = PredictArrays(data).preds,
                                  !.labels = PredictArrays(data).labels]
    /\ UNCHANGED <<kind, epochs, saveFlag, earlyStop, epoch, phaseIdx, batchIdx,
                   meter, phaseVals, valLoss, log, last, calls>>
    /\ UNCHANGED backendVars
    /\ UNCHANGED <<taskType, data, loadBest>>

\* MLTrainManager.predict on a fitted backend
PredictML ==
    /\ kind = "ml"
    /\ pc = "idle"
    /\ IF data = <<>>
       THEN /\ pc' = "raised"
            /\ err' = Error("ValueError", "vstack")
            /\ UNCHANGED <<predictCalls, result>>
       ELSE /\ pc' = "returned"
            /\ predictCalls' = 1
            /\ result' = [NoResult EXCEPT !.status = "returned",
                                          !.preds = MLPredictArrays(data).preds,
                                          !.labels = MLPredictArrays(data).labels]
            /\ UNCHANGED err
    /\ UNCHANGED <<kind, epochs, saveFlag, earlyStop, epoch, phaseIdx, batchIdx,
                   meter, phaseVals, valLoss, log, last, calls>>
    /\ UNCHANGED <<backend, fitted, ckpt, cfg>>
    /\ UNCHANGED <<taskType, data, loadBest>>

TrainIdle ==
    /\ epochs = 1
    /\ saveFlag = [m \in Metrics |-> m = "loss"]
    /\ earlyStop = FALSE
    /\ pc = "idle"
    /\ epoch = 0
    /\ phaseIdx = 1
    /\ batchIdx = 0
    /\ meter = [m \in Metrics |-> [p \in Phases |-> NewMeter]]
    /\ phaseVals = [m \in Metrics |-> <<0, 0>>]
    /\ valLoss = <<>>
    /\ log = <<>>
    /\ last = <<>>
    /\ calls = 0

\* the meters of an orchestrator whose training has ended: every running
\* sum/count reset, a best kept
TrainedMeters ==
    [m \in Metrics |-> [p \in Phases |->
        [NewMeter EXCEPT !.best = <<IF m = "loss" THEN 5 ELSE 1, 1>>]]]

\* an orchestrator at rest with a fitted backend: the per-batch one after a
\* training run, the batch-fit one after its model was restored
InitPredict ==
    /\ kind \in {"nn", "ml"}
    /\ epochs = 1
    /\ saveFlag = [m \in Metrics |-> m = "loss"]
    /\ earlyStop = FALSE
    /\ pc = "idle"
    /\ epoch = 0
    /\ phaseIdx = 1
    /\ batchIdx = 0
    /\ meter = IF kind = "nn" THEN TrainedMeters
               ELSE [m \in Metrics |-> [p \in Phases |-> NewMeter]]
    /\ phaseVals = [m \in Metrics |-> <<0, 0>>]
    /\ valLoss = <<>>
    /\ log = <<>>
    /\ last = <<>>
    /\ calls = 0
    /\ backend = "constructed"
    /\ err = NoErr
    /\ fitted = TRUE
    /\ ckpt = "fitted"
    /\ cfg = ManagerCfg
    /\ taskType \in {"classify", "regress"}
    /\ data \in DataSets(taskType)
    /\ loadBest = FALSE
    /\ predictCalls = 0
    /\ result = NoResult


\* C5, as stated: aggregation over batches of nominal size BatchSize with a
\* possibly short final batch returns a prediction and a label array that hold
\* every row exactly once, in delivery order, and nothing else: both have the
\* length of the true row count.
C5_AggregationReturnsEveryRow ==
    pc = "returned" =>
        /\ result.preds = Preds(Flatten(data))
        /\ result.labels = Labels(Flatten(data))
        /\ Len(result.preds) = Len(Flatten(data))
        /\ Len(result.labels) = Len(result.preds)

Occurrences(seq, v) == Cardinality({i \in 1..Len(seq) : seq[i] = v})

\* C6, as stated: the pre-fill value never collides with a legitimate
\* prediction or label: every value written into a buffer is still in the
\* returned array, as often as it was written, and exactly the slots never
\* written are discarded.
C6_WrittenValuesSurvive ==
    (pc = "returned" /\ kind = "nn") =>
        /\ \A i \in 1..Len(Flatten(data)) :
              /\ Occurrences(result.preds, Flatten(data)[i].pred)
                   = Occurrences(Preds(Flatten(data)), Flatten(data)[i].pred)
              /\ Occurrences(result.labels, Flatten(data)[i].label)
                   = Occurrences(Labels(Flatten(data)), Flatten(data)[i].label)
        /\ Len(data) * BatchSize - Len(result.preds)
             = Len(data) * BatchSize - Len(Flatten(data))
        /\ Len(data) * BatchSize - Len(result.labels)
             = Len(data) * BatchSize - Len(Flatten(data))

----------------------------------------------------------------------------
(* BaseModel: construction, load_model, and the calls made on it *)

CfgKeys == {"task_type", "loss_weight", "model_path"}

\* the must_contain_keys a concrete backend hands to BaseModel.__init__
MustChoices == {<<>>, <<"model_path">>, <<"model_path", "task_type", "loss_weight">>}

ModelTypes == {"rnn", "cnn", "cnn_rnn"}

\* the configurations a backend can be constructed with; task and weights are
\* the values of cfg['task_type'] and len(cfg['loss_weight']) where present
Configs ==
    [keys : SUBSET CfgKeys, must : MustChoices, task : {"classify", "regress"},
     labels : 1..MaxClasses, weights : 1..MaxClasses, model : ModelTypes]

RECURSIVE CheckCfg(_, _)
\* BaseModel._check_cfg: the first required key that is missing fails an assert
\* whose message names it
CheckCfg(c, i) ==
    IF i > Len(c.must) THEN NoErr
    ELSE IF c.must[i] \notin c.keys THEN Error("AssertionError", c.must[i])
    ELSE CheckCfg(c, i + 1)

\* mutant: the length of loss_weight is not compared with the class labels
SetCriterionUnchecked(c) ==
    IF "task_type" \notin c.keys THEN Error("KeyError", "task_type")
    ELSE IF c.task = "regress" THEN NoErr
    ELSE IF "loss_weight" \notin c.keys THEN Error("KeyError", "loss_weight")
    ELSE NoErr

\* BaseModel._set_criterion: MSE for regress, else the weighted criterion after
\* the assert on the lengths; reading an absent key is a KeyError naming it
SetCriterion(c) ==
    IF "task_type" \notin c.keys THEN Error("KeyError", "task_type")
    ELSE IF c.task = "regress" THEN NoErr
    ELSE IF "loss_weight" \notin c.keys THEN Error("KeyError", "loss_weight")
    ELSE IF c.labels # c.weights THEN Error("AssertionError", "loss weight")
    ELSE NoErr

\* BaseModel.__init__: _check_cfg, then _set_criterion, then fitted = False
ConstructErr(c) == IF CheckCfg(c, 1) # NoErr THEN CheckCfg(c, 1) ELSE SetCriterion(c)

Construct ==
    /\ backend = "none"
    /\ backend' = IF ConstructErr(cfg) = NoErr THEN "constructed" ELSE "failed"
    /\ err' = ConstructErr(cfg)
    /\ fitted' = FALSE
    /\ UNCHANGED <<ckpt, cfg>>
    /\ UNCHANGED trainVars
    /\ UNCHANGED predVars

Call(op, isFitted) == Event(op, 0, "-", "-", isFitted)

Usable == backend = "constructed" /\ pc = "idle"

\* a successful fit of the concrete backend
BackendFit ==
    /\ Usable
    /\ fitted' = TRUE
    /\ err' = NoErr
    /\ last' = <<Call("fit", fitted)>>
    /\ predictCalls' = 0
    /\ result' = NoResult
    /\ UNCHANGED <<backend, ckpt, cfg>>
    /\ UNCHANGED <<kind, epochs, saveFlag, earlyStop, pc, epoch, phaseIdx, batchIdx,
                   meter, phaseVals, valLoss, log, calls>>
    /\ UNCHANGED <<taskType, data, loadBest>>

\* BaseModel.save_model: reading cfg['model_path'] is a KeyError when the key
\* is absent, and nothing is written then; otherwise the wrapped model is
\* written to that path, fitted or not
SaveModel(ck, isFitted) ==
    IF "model_path" \notin cfg.keys
    THEN [err |-> Error("KeyError", "model_path"), ckpt |-> ck]
    ELSE [err |-> NoErr, ckpt |-> SaveModelCkpt(isFitted)]

\* BaseModel.save_model called by the owner of the backend
BackendSaveModel ==
    /\ Usable
    /\ ckpt' = SaveModel(ckpt, fitted).ckpt
    /\ err' = SaveModel(ckpt, fitted).err
    /\ last' = <<Call("save_model", fitted)>>
    /\ predictCalls' = 0
    /\ result' = NoResult
    /\ UNCHANGED <<backend, fitted, cfg>>
    /\ UNCHANGED <<kind, epochs, saveFlag, earlyStop, pc, epoch, phaseIdx, batchIdx,
                   meter, phaseVals, valLoss, log, calls>>
    /\ UNCHANGED <<taskType, data, loadBest>>

\* the fitted attribute of the wrapped model once its own load_model has
\* returned: a model restored from a checkpoint counts as fitted
RestoredFitted(ck) == ck \in {"fitted", "unfitted"}

\* mutant: a missing checkpoint file is reported and the call returns
LoadModelSwallows(ck, isFitted) ==
    IF "model_path" \notin cfg.keys THEN [status |-> "keyerror", fitted |-> isFitted]
    ELSE IF ck = "absent" THEN [status |-> "ok", fitted |-> isFitted]
    ELSE [status |-> "ok", fitted |-> RestoredFitted(ck)]

\* mutant: the flag is not taken over from the restored model
LoadModelKeepsFlag(ck, isFitted) ==
    IF "model_path" \notin cfg.keys THEN [status |-> "keyerror", fitted |-> isFitted]
    ELSE IF ck = "absent" THEN [status |-> "exit", fitted |-> isFitted]
    ELSE [status |-> "ok", fitted |-> isFitted]

\* BaseModel.load_model: reading cfg['model_path'] is a KeyError when the key
\* is absent, which the except clause does not catch; a missing file is
\* printed and the process exits with status 1; otherwise fitted is taken from
\* the restored model
LoadModel(ck, isFitted) ==
    IF "model_path" \notin cfg.keys THEN [status |-> "keyerror", fitted |-> isFitted]
    ELSE IF ck = "absent" THEN [status |-> "exit", fitted |-> isFitted]
    ELSE [status |-> "ok", fitted |-> RestoredFitted(ck)]

\* BaseModel.load_model called by the owner of the backend
BackendLoadModel ==
    /\ Usable
    /\ LET r == LoadModel(ckpt, fitted)
       IN /\ pc' = IF r.status = "exit" THEN "exited" ELSE pc
          /\ err' = IF r.status = "exit" THEN Error("SystemExit", "1")
                    ELSE IF r.status = "keyerror" THEN Error("KeyError", "model_path")
                    ELSE NoErr
          /\ fitted' = r.fitted
    /\ last' = <<Call("load_model", fitted)>>
    /\ predictCalls' = 0
    /\ result' = NoResult
    /\ UNCHANGED <<backend, ckpt, cfg>>
    /\ UNCHANGED <<kind, epochs, saveFlag, earlyStop, epoch, phaseIdx, batchIdx,
                   meter, phaseVals, valLoss, log, calls>>
    /\ UNCHANGED <<taskType, data, loadBest>>

\* BaseModel.anneal_lr called by the owner of the backend: does nothing
BackendAnnealLr ==
    /\ Usable
    /\ err' = NoErr
    /\ last' = <<Call("anneal_lr", fitted)>>
    /\ predictCalls' = 0
    /\ result' = NoResult
    /\ UNCHANGED <<backend, fitted, ckpt, cfg>>
    /\ UNCHANGED <<kind, epochs, saveFlag, earlyStop, pc, epoch, phaseIdx, batchIdx,
                   meter, phaseVals, valLoss, log, calls>>
    /\ UNCHANGED <<taskType, data, loadBest>>

\* BaseModel.update_by_epoch called by the owner of the backend: does nothing
BackendUpdateByEpoch ==
    /\ Usable
    /\ err' = NoErr
    /\ last' = <<Call("update_by_epoch", fitted)>>
    /\ predictCalls' = 0
    /\ result' = NoResult
    /\ UNCHANGED <<backend, fitted, ckpt, cfg>>
    /\ UNCHANGED <<kind, epochs, saveFlag, earlyStop, pc, epoch, phaseIdx, batchIdx,
                   meter, phaseVals, valLoss, log, calls>>
    /\ UNCHANGED <<taskType, data, loadBest>>

\* predict of the concrete backend: refused while fitted is false
PredictErr(isFitted) == IF isFitted THEN NoErr ELSE Error("ModelNotFittedError", "-")

\* predict called by the owner of the backend on one batch of rows
BackendPredict(rows) ==
    /\ Usable
    /\ err' = PredictErr(fitted)
    /\ last' = <<Call("predict", fitted)>>
    /\ predictCalls' = 1
    /\ result' = IF fitted
                 THEN [NoResult EXCEPT !.status = "returned", !.preds = Preds(rows)]
                 ELSE [NoResult EXCEPT !.status = "raised"]
    /\ UNCHANGED <<backend, fitted, ckpt, cfg>>
    /\ UNCHANGED <<kind, epochs, saveFlag, earlyStop, pc, epoch, phaseIdx, batchIdx,
                   meter, phaseVals, valLoss, log, calls>>
    /\ UNCHANGED <<taskType, data, loadBest>>

----------------------------------------------------------------------------
(* BaseModelManager.test and BaseModelManager.infer *)

RECURSIVE TestMetrics(_, _, _)
\* lines 210-221: the loop over the metrics.  lv is the local loss_value:
\* "unbound" until a branch assigns it.  The result is the error the loop ended
\* with and the loss value each updated metric was given.
TestMetrics(i, lv, given) ==
    IF i > Len(MetricOrder) THEN [err |-> NoErr, loss |-> given]
    ELSE LET m == MetricOrder[i] IN
         IF m = "loss" /\ cfg.task = "classify" THEN TestMetrics(i + 1, lv, given)
         ELSE LET lv2 == IF m = "loss"
                         THEN (IF cfg.model \in {"rnn", "cnn"} THEN "criterion" ELSE lv)
                         ELSE "10000000"
              IN IF lv2 = "unbound"
                 THEN [err |-> Error("UnboundLocalError", "loss_value"), loss |-> given]
                 ELSE TestMetrics(i + 1, lv2, Append(given, <<m, lv2>>))

\* the calls and the outcome of load_model (when asked for) followed by
\* _predict(phase) over the batches d
LoadAndPredict(op, lb, d) ==
    LET r == IF lb THEN LoadModel(ckpt, fitted) ELSE [status |-> "ok", fitted |-> fitted]
        loadCalls == IF lb THEN <<Call("load_model", fitted)>> ELSE <<>>
    IN IF r.status = "exit"
       THEN [status |-> "exit", fitted |-> r.fitted, npred |-> 0,
             calls |-> <<Call(op, fitted)>> \o loadCalls,
             err |-> Error("SystemExit", "1")]
       ELSE IF r.status = "keyerror"
       THEN [status |-> "raised", fitted |-> r.fitted, npred |-> 0,
             calls |-> <<Call(op, fitted)>> \o loadCalls,
             err |-> Error("KeyError", "model_path")]
       ELSE IF d # <<>> /\ PredictErr(r.fitted) # NoErr
       THEN [status |-> "raised", fitted |-> r.fitted, npred |-> 1,
             calls |-> <<Call(op, fitted)>> \o loadCalls \o <<Call("predict", r.fitted)>>,
             err |-> PredictErr(r.fitted)]
       ELSE [status |-> "ok", fitted |-> r.fitted, npred |-> Len(d),
             calls |-> <<Call(op, fitted)>> \o loadCalls
                       \o [i \in 1..Len(d) |-> Call("predict", r.fitted)],
             err |-> NoErr]

\* BaseModelManager.test(load_best = lb) over the test batches d
Test(lb, d) ==
    /\ Usable
    /\ loadBest' = lb
    /\ data' = d
    /\ LET r == LoadAndPredict("test", lb, d)
           tm == TestMetrics(1, "unbound", <<>>)
       IN /\ fitted' = r.fitted
          /\ last' = r.calls
          /\ predictCalls' = r.npred
          /\ IF r.status = "exit"
             THEN pc' = "exited" /\ err' = r.err /\ result' = NoResult
             ELSE IF r.status = "raised"
             THEN pc' = pc /\ err' = r.err
                  /\ result' = [NoResult EXCEPT !.status = "raised"]
             ELSE IF tm.err # NoErr
             THEN pc' = pc /\ err' = tm.err
                  /\ result' = [NoResult EXCEPT !.status = "raised", !.loss = tm.loss]
             ELSE pc' = pc /\ err' = NoErr
                  /\ result' = [status |-> "returned",
                                preds |-> PredictArrays(d).preds,
                                labels |-> PredictArrays(d).labels,
                                loss |-> tm.loss]
    /\ UNCHANGED <<backend, ckpt, cfg>>
    /\ UNCHANGED <<kind, epochs, saveFlag, earlyStop, epoch, phaseIdx, batchIdx,
                   meter, phaseVals, valLoss, log, calls>>
    /\ UNCHANGED taskType

\* BaseModelManager.infer(load_best = lb) over the infer batches d
Infer(lb, d) ==
    /\ Usable
    /\ loadBest' = lb
    /\ data' = d
    /\ LET r == LoadAndPredict("infer", lb, d)
       IN /\ fitted' = r.fitted
          /\ last' = r.calls
          /\ predictCalls' = r.npred
          /\ err' = r.err
          /\ pc' = IF r.status = "exit" THEN "exited" ELSE pc
          /\ result' = IF r.status = "exit" THEN NoResult
                       ELSE IF r.status = "raised"
                       THEN [NoResult EXCEPT !.status = "raised"]
                       ELSE [NoResult EXCEPT !.status = "returned",
                                             !.preds = PredictArrays(d).preds]
    /\ UNCHANGED <<backend, ckpt, cfg>>
    /\ UNCHANGED <<kind, epochs, saveFlag, earlyStop, epoch, phaseIdx, batchIdx,
                   meter, phaseVals, valLoss, log, calls>>
    /\ UNCHANGED taskType

\* the prediction workflows of an orchestrator at rest: the aggregation of
\* either orchestrator, and infer() of the per-batch one over its data source
NextPredict ==
    \/ PredictNN
    \/ PredictML
    \/ \E lb \in BOOLEAN : kind = "nn" /\ Infer(lb, data)

SpecPredict == InitPredict /\ [][NextPredict]_vars

InitBackend ==
    /\ kind = "nn"
    /\ TrainIdle
    /\ backend = "none"
    /\ err = NoErr
    /\ fitted = FALSE
    /\ ckpt \in {"absent", "fitted"}
    /\ cfg \in Configs
    /\ taskType = cfg.task
    /\ data = <<>>
    /\ loadBest = FALSE
    /\ predictCalls = 0
    /\ result = NoResult

NextBackend ==
    \/ Construct
    \/ BackendFit
    \/ BackendSaveModel
    \/ BackendLoadModel
    \/ BackendAnnealLr
    \/ BackendUpdateByEpoch
    \/ \E rows \in [1..1 -> Samples(cfg.task)] : BackendPredict(rows)
    \/ \E lb \in BOOLEAN, d \in UniformDataSets(cfg.task) : Test(lb, d)
    \/ \E lb \in BOOLEAN, d \in UniformDataSets(cfg.task) : Infer(lb, d)

SpecBackend == InitBackend /\ [][NextBackend]_vars

----------------------------------------------------------------------------
(* Claims about the backend and the evaluation workflows *)

C8_UnfittedCallsFail ==
    \A i \in 1..Len(last) :
        (last[i].op \in {"predict", "save_model"} /\ ~last[i].flag) =>
            /\ err.type = "ModelNotFittedError"
            /\ ckpt # "unfitted"
            /\ result.preds = <<>>

\* C9: construction fails at once when a required key is missing, the failure
\* naming the first missing key, and for a classify config whose class labels
\* and loss weights differ in number; nothing has run on a backend that failed
\* to construct.
C9_ConstructionValidatesConfig ==
    LET missing == {i \in 1..Len(cfg.must) : cfg.must[i] \notin cfg.keys}
        first == CHOOSE i \in missing : \A j \in missing : i <= j
        mismatch == /\ "task_type" \in cfg.keys
                    /\ cfg.task = "classify"
                    /\ "loss_weight" \in cfg.keys
                    /\ cfg.labels # cfg.weights
    IN /\ backend = "constructed" => (missing = {} /\ ~mismatch)
       /\ (backend # "none" /\ missing # {}) =>
             /\ backend = "failed"
             /\ err = Error("AssertionError", cfg.must[first])
       /\ (backend # "none" /\ missing = {} /\ mismatch) =>
             /\ backend = "failed"
             /\ err = Error("AssertionError", "loss weight")
       /\ backend # "constructed" =>
             /\ last = <<>>
             /\ ~fitted
             /\ predictCalls = 0
             /\ result = NoResult

\* C9 witness: a classify config with all required keys and two class labels
\* against one loss weight was refused by the constructor.
C9_Witness ==
    /\ backend = "failed"
    /\ cfg.task = "classify"
    /\ cfg.labels = 2
    /\ cfg.weights = 1
    /\ cfg.must = <<"model_path", "task_type", "loss_weight">>
    /\ err = Error("AssertionError", "loss weight")

----------------------------------------------------------------------------
(* Claims about the end-of-phase calls on the backend *)

\* the position of the last call an end-of-phase step made on a metric
LastMetricCall(evs) ==
    CHOOSE i \in 1..Len(evs) :
        /\ evs[i].op \in {"update_best", "save_model", "reset"}
        /\ \A j \in (i + 1)..Len(evs) : evs[j].op \notin {"update_best", "save_model", "reset"}

\* C11, as stated: at the end of every train phase, and only of train phases,
\* the orchestrator calls backend.anneal_lr and backend.update_by_epoch, each
\* exactly once, after the metrics of the phase have been processed; neither
\* is called at the end of a val phase.
C11_AnnealAndUpdateByEpoch ==
    (kind = "nn" /\ last # <<>> /\ last[1].op = "_update_by_epoch") =>
        IF last[1].phase = "train"
        THEN /\ Count(last, "anneal_lr") = 1
             /\ Count(last, "update_by_epoch") = 1
             /\ \A i \in 1..Len(last) :
                   last[i].op \in {"anneal_lr", "update_by_epoch"} =>
                       i > LastMetricCall(last)
        ELSE /\ Count(last, "anneal_lr") = 0
             /\ Count(last, "update_by_epoch") = 0

----------------------------------------------------------------------------
(* Claims about the fitted flag *)

\* the calls one step made, when it made any
Stepped(ops) == last' # <<>> /\ \E i \in 1..Len(last') : last'[i].op \in ops

\* what one step does to the fitted flag
FittedStep ==
    /\ (backend = "none" /\ backend' # "none") => ~fitted'
    /\ (backend' = backend /\ Stepped({"fit"}) /\ err' = NoErr) => fitted'
    /\ (backend' = backend /\ Stepped({"load_model"})) =>
          IF pc' = "exited" \/ err' = Error("KeyError", "model_path")
          THEN fitted' = fitted ELSE fitted'
    /\ (backend' = backend /\ ~Stepped({"fit", "load_model"})) => fitted' = fitted

\* C12: fitted is false from construction until the first successful fit or
\* load_model, true after a successful fit and after a load_model that returned
\* without error, and changed by no other operation (predict, save_model,
\* anneal_lr, update_by_epoch).
C12_FittedFlag ==
    /\ [](backend # "constructed" => ~fitted)
    /\ [][FittedStep]_vars

\* C12 witness: load_model returned on a backend that had never been fitted,
\* and the backend is fitted now.
C12_Witness ==
    /\ backend = "constructed"
    /\ pc = "idle"
    /\ last = <<Call("load_model", FALSE)>>
    /\ err = NoErr
    /\ fitted

----------------------------------------------------------------------------
(* Claims about the batch-fit orchestrator *)

\* the number of calls of kind op for phase p among evs
CountFor(evs, op, p) == Len(SelectSeq(evs, LAMBDA e : e.op = op /\ e.phase = p))

\* the number of batches of phase p delivered in one pass over its loader
PassReads(evs, p, pass) ==
    Len(SelectSeq(evs, LAMBDA e : e = Event("materialize", 0, p, pass, FALSE)))

\* C13: one train() call of the batch-fit orchestrator that fits makes exactly
\* one backend.fit call, on the train split, after every batch of every
\* requested phase has been materialized; the held-out pair is handed to fit
\* only when early stopping is on and val is among the phases; one predict per
\* requested phase and save_model come only after that fit.
C13_FitOnceOnMaterializedSplit ==
    (kind = "ml" /\ last # <<>>) =>
        /\ Count(last, "fit") <= 1
        /\ pc = "returned" => Count(last, "fit") = 1
        /\ \A p \in Phases :
              /\ CountFor(last, "materialize", p) \in {0, 2 * NumBatches}
              /\ PassReads(last, p, "inputs") = PassReads(last, p, "labels")
              /\ \A a, b \in 1..Len(last) :
                    (/\ last[a] = Event("materialize", 0, p, "inputs", FALSE)
                     /\ last[b] = Event("materialize", 0, p, "labels", FALSE)) => a < b
        /\ \A i \in 1..Len(last) : last[i].op = "fit" =>
              /\ last[i].phase = "train"
              /\ PassReads(SubSeq(last, 1, i - 1), "train", "inputs") = NumBatches
              /\ PassReads(SubSeq(last, 1, i - 1), "train", "labels") = NumBatches
              /\ \A j \in 1..Len(last) : last[j].op = "materialize" => j < i
              /\ last[i].flag <=>
                    (earlyStop /\ CountFor(last, "materialize", "val") = 2 * NumBatches)
              /\ \A j \in 1..Len(last) :
                    last[j].op \in {"predict", "save_model"} => j > i
              /\ \A p \in Phases :
                    CountFor(last, "predict", p)
                      = IF CountFor(last, "materialize", p) > 0 THEN 1 ELSE 0
        /\ Count(last, "fit") = 0 =>
              (Count(last, "predict") = 0 /\ Count(last, "save_model") = 0)

\* C13 witness: a train() call with early stopping on and both phases requested
\* returned after one fit that was handed the held-out pair.
C13_Witness ==
    /\ kind = "ml"
    /\ pc = "returned"
    /\ earlyStop
    /\ Count(last, "fit") = 1
    /\ \E i \in 1..Len(last) : last[i].op = "fit" /\ last[i].flag
    /\ CountFor(last, "predict", "val") = 1
    /\ last[Len(last)].op = "save_model"

----------------------------------------------------------------------------
(* Claims about infer() *)

\* the batches with every label replaced by lab
Relabel(batches, lab) ==
    [i \in 1..Len(batches) |->
        [j \in 1..Len(batches[i]) |-> Sample(batches[i][j].pred, lab)]]

\* a step that is one infer() call
InferStep ==
    /\ pc = "idle"
    /\ pc' # "returned"
    /\ last' # <<>>
    /\ last'[1].op = "infer"

\* C14: infer() computes no metric and uses no label: it leaves the running
\* sum, count and best of every metric as they were, makes no fit and no
\* save_model call, and returns predictions that are the same whatever the
\* labels of the batches are.
C14_InferFrame ==
    [][InferStep =>
          /\ meter' = meter
          /\ phaseVals' = phaseVals
          /\ Count(last', "fit") = 0
          /\ Count(last', "save_model") = 0
          /\ ckpt' = ckpt
          /\ log' = log
          /\ result'.labels = <<>>
          /\ result'.loss = <<>>
          /\ \A lab \in {0, 1, Sentinel} :
                result'.preds = PredictArrays(Relabel(data', lab)).preds]_vars

\* C14 witness: infer() returned the predictions of a batch whose label is the
\* pre-fill value, on an orchestrator whose metrics hold a best from training.
C14_Witness ==
    /\ kind = "nn"
    /\ last # <<>>
    /\ last[1].op = "infer"
    /\ result.status = "returned"
    /\ meter = TrainedMeters
    /\ data = <<<<Sample(0, Sentinel)>>>>
    /\ result.preds = <<0>>

----------------------------------------------------------------------------
(* Claims about the batch loop of the per-batch orchestrator *)

\* a step in which one batch was taken and its fit returned
BatchStep == kind = "nn" /\ batchIdx' = batchIdx + 1

\* what such a step does: one fit, then one update of every metric for the
\* phase, each folding exactly one value into the meter of that phase
OneFitThenEveryMetric ==
    /\ batchIdx < NumBatches
    /\ Len(last') = 1 + Len(MetricOrder)
    /\ last'[1] = Event("fit", epoch, Phase, "-", FALSE)
    /\ Count(last', "fit") = 1
    /\ \A m \in Metrics :
          /\ Len(SelectSeq(last', LAMBDA e : e = Event("update", epoch, Phase, m, FALSE))) = 1
          /\ meter'[m][Phase].count = meter[m][Phase].count + 1
          /\ meter'[m][Phase].count = batchIdx'
          /\ \A p \in Phases \ {Phase} : meter'[m][p] = meter[m][p]
    /\ Count(log', "fit") = Count(log, "fit") + 1
    /\ epoch' = epoch /\ phaseIdx' = phaseIdx

\* C15: in the per-batch orchestrator every batch delivered by the phase's data
\* source gets exactly one backend.fit call followed by exactly one update on
\* every metric before the next batch is taken; the batches are taken one at a
\* time, in the order of delivery.
C15_OneFitPerBatch ==
    [][/\ BatchStep => OneFitThenEveryMetric
       /\ (kind = "nn" /\ Count(log', "fit") # Count(log, "fit")) =>
             (BatchStep \/ pc' = "aborted")
       /\ (kind = "nn" /\ batchIdx' # batchIdx) =>
             (BatchStep \/ (batchIdx = NumBatches /\ batchIdx' = 0))]_vars

\* C15 witness: the second batch of a val phase has been fitted and every
\* metric holds two values for the phase.
C15_Witness ==
    /\ kind = "nn"
    /\ pc = "run"
    /\ Phase = "val"
    /\ batchIdx = 2
    /\ last = BatchEvents("val")
    /\ \A m \in Metrics : meter[m]["val"].count = 2

----------------------------------------------------------------------------
(* Termination of train() *)

\* train() of the per-batch orchestrator with every metric save-triggering
InitFair == Init /\ kind = "nn" /\ saveFlag = [m \in Metrics |-> TRUE]

NextFair ==
    \/ \E l \in LossVals, a \in AccVals : FitBatch(l, a)
    \/ FitBatchFails
    \/ UpdateByEpoch

\* The loops of train() are run by one thread over finite data sources: a step
\* that can be taken is eventually taken.
SpecFair == InitFair /\ [][NextFair]_vars /\ WF_vars(NextFair)

\* where a run of the per-batch orchestrator stands when it has ended
EndOfTrain ==
    kind = "nn" =>
        /\ pc \in {"run", "done", "aborted"}
        /\ pc = "done" =>
              /\ err = NoErr
              /\ CountFor(log, "_update_by_epoch", "train") = epochs
              /\ CountFor(log, "_update_by_epoch", "val") = epochs
              /\ Count(log, "fit") = epochs * 2 * NumBatches
        /\ pc = "aborted" =>
              /\ err # NoErr
              /\ log # <<>>
              /\ log[Len(log)].op = "fit"
              /\ last = <<log[Len(log)]>>
        /\ err # NoErr => pc = "aborted"

\* C16: with finite data sources train() either ends after exactly `epochs`
\* train phases and `epochs` val phases, or aborts at the first failing fit:
\* the failed fit is not retried, and no fit, metric update, end-of-phase
\* processing or save_model follows it in that run.
C16_TerminatesOrAborts ==
    /\ []EndOfTrain
    /\ [][pc # "aborted"]_vars
    /\ <>(kind = "nn" => pc \in {"done", "aborted"})

\* C16 witness: the fit of the second val batch of epoch 1 failed and the run
\* stopped there, after a checkpoint had been written in epoch 0.
C16_Witness ==
    /\ kind = "nn"
    /\ pc = "aborted"
    /\ epochs = 2
    /\ epoch = 1
    /\ Phase = "val"
    /\ batchIdx = 1
    /\ ckpt = "fitted"
    /\ last = <<Event("fit", 1, "val", "-", FALSE)>>

----------------------------------------------------------------------------
(* Claims about the metrics of test() *)

\* C17, as stated: in test() the loss value handed to the update of a metric
\* was assigned in that metric's own loop iteration: it is never undefined and
\* never the value left by a metric processed before, whatever the task type,
\* the model type and the order of the metrics.
C17_LossValueAssignedPerMetric ==
    (last # <<>> /\ last[1].op = "test") =>
        /\ err.type # "UnboundLocalError"
        /\ \A i \in 1..Len(result.loss) :
              IF result.loss[i][1] = "loss"
              THEN result.loss[i][2] = "criterion"
              ELSE result.loss[i][2] = "10000000"

----------------------------------------------------------------------------
(* Claims about the number of checkpoint writes and about only_validate *)

\* C18, as stated: backend.save_model() is called at most once per val phase,
\* even when several save-triggering metrics improve in that phase.
C18_SaveAtMostOncePerValPhase == Count(last, "save_model") <= 1

\* the train() call of the batch-fit orchestrator that ended last was one with
\* only_validate: the val split alone was materialized
OnlyValidateCall ==
    /\ kind = "ml"
    /\ CountFor(last, "materialize", "val") = 2 * NumBatches
    /\ CountFor(last, "materialize", "train") = 0

\* C19, as stated: train(only_validate=True) of the batch-fit orchestrator
\* completes without a backend.fit call, with the val metrics updated from
\* predictions on the val split; every combination of with_validate and
\* only_validate reaches the return with loss and predictions defined.
C19_OnlyValidateCompletes ==
    /\ kind = "ml" => (pc # "raised" /\ err.type # "UnboundLocalError")
    /\ OnlyValidateCall =>
          /\ pc = "returned"
          /\ Count(last, "fit") = 0
          /\ CountFor(last, "predict", "val") = 1
          /\ \A m \in Metrics :
                Len(SelectSeq(last, LAMBDA e : e = Event("update", 0, "val", m, FALSE))) = 1

====
